---- MODULE Spec2Model ----
(***************************************************************************)
(* Model of the ingestion pipeline (ItemService.CreateItem) and of the     *)
(* hybrid retrieval engine (SearchService.Search) of Project Synapse,      *)
(* together with the relational store (ItemRepository) and the vector      *)
(* store (db.Chroma) as seen through the calls the services make.          *)
(*                                                                         *)
(* Strings are sequences of bytes (a Go string is a byte sequence); an     *)
(* ASCII byte is written as a one-character string, the two bytes of a     *)
(* two-byte UTF-8 character as LeadByte and ContByte.  Similarity scores   *)
(* are fixed-point numbers in units of 1/ScoreScale; prices are exact      *)
(* fractions num/den.                                                      *)
(***************************************************************************)
EXTENDS Integers, Sequences, FiniteSets, TLC

VARIABLES
    items,      \* relational table "items": set of item rows
    chroma,     \* vector collection "synapse_items": set of embedding ids
    nextID,     \* number of ids uuid.New() has handed out so far
    clock,      \* time.Now(), a logical clock
    last,       \* record of the last GetItem or GetAllItems and of what it
                \* returned (in the stand-alone evaluations: their input and
                \* result)
    fusion,     \* state of the stand-alone fusion/post-filter evaluation
    run,        \* the CreateItem call in flight, goroutine by goroutine,
                \* and what it returned once it is done
    search      \* the Search call in flight, store access by store access,
                \* and what it returned once it is done

vars == <<items, chroma, nextID, clock, last, fusion, run, search>>

----------------------------------------------------------------------------
(* Bounds of the model *)

MaxItems == 1       \* CreateItem calls (ids generated) in one behaviour
MaxLimit == 2       \* largest `limit` passed to Search

(* Program constants *)

SummaryBudget == 200
ScoreScale == 1000
TextBaseScore == 500
BoostFactorTenths == 7
BoostOffset == 300
SelectedColumns == 12
SearchItemsScanDests == 11
GetByIDsScanDests == 12

----------------------------------------------------------------------------
(* Byte strings *)

LeadByte == "<C3>"
ContByte == "<A9>"

Rep(c, n) == [i \in 1..n |-> c]

\* number of characters (runes) of a well-formed UTF-8 byte string
CharLen(s) == Cardinality({i \in 1..Len(s) : s[i] # ContByte})

\* the first n characters of s (all of s when it has fewer)
CharPrefix(s, n) ==
    LET ends == {k \in 0..Len(s) :
                    /\ Cardinality({i \in 1..k : s[i] # ContByte}) <= n
                    /\ (k < Len(s) => s[k+1] # ContByte)}
        k == CHOOSE k \in ends : \A m \in ends : m <= k
    IN SubSeq(s, 1, k)

IsPrefix(p, s) == Len(p) <= Len(s) /\ SubSeq(s, 1, Len(p)) = p

Ellipsis == <<".", ".", ".">>

Digits == {"0", "1", "2", "3", "4", "5", "6", "7", "8", "9"}

DigitVal(c) ==
    CASE c = "0" -> 0 [] c = "1" -> 1 [] c = "2" -> 2 [] c = "3" -> 3
      [] c = "4" -> 4 [] c = "5" -> 5 [] c = "6" -> 6 [] c = "7" -> 7
      [] c = "8" -> 8 [] c = "9" -> 9

\* strings.ToLower / the case folding of ILIKE and of (?i), per byte
LowerByte(c) ==
    CASE c = "A" -> "a" [] c = "B" -> "b" [] c = "C" -> "c" [] c = "D" -> "d"
      [] c = "E" -> "e" [] c = "F" -> "f" [] c = "G" -> "g" [] c = "H" -> "h"
      [] c = "I" -> "i" [] c = "J" -> "j" [] c = "K" -> "k" [] c = "L" -> "l"
      [] c = "M" -> "m" [] c = "N" -> "n" [] c = "O" -> "o" [] c = "P" -> "p"
      [] c = "Q" -> "q" [] c = "R" -> "r" [] c = "S" -> "s" [] c = "T" -> "t"
      [] c = "U" -> "u" [] c = "V" -> "v" [] c = "W" -> "w" [] c = "X" -> "x"
      [] c = "Y" -> "y" [] c = "Z" -> "z"
      [] OTHER -> c

ToLower(s) == [i \in 1..Len(s) |-> LowerByte(s[i])]

\* strings.Contains
Contains(s, sub) ==
    \E i \in 1..(Len(s) - Len(sub) + 1) :
        \A k \in 1..Len(sub) : s[i + k - 1] = sub[k]

\* s LIKE p: in the pattern % stands for any run of bytes, _ for any one
\* character and a backslash takes the byte after it literally
RECURSIVE LikeMatch(_, _)
LikeMatch(s, p) ==
    IF p = <<>> THEN s = <<>>
    ELSE IF Head(p) = "%"
    THEN \E k \in 0..Len(s) : LikeMatch(SubSeq(s, k + 1, Len(s)), Tail(p))
    ELSE IF Head(p) = "_"
    THEN /\ s # <<>>
         /\ LikeMatch(SubSeq(s, (IF Head(s) = LeadByte /\ Len(s) > 1 THEN 3 ELSE 2),
                             Len(s)),
                      Tail(p))
    ELSE IF Head(p) = "\\" /\ Len(p) > 1
    THEN /\ s # <<>> /\ Head(s) = p[2]
         /\ LikeMatch(Tail(s), SubSeq(p, 3, Len(p)))
    ELSE /\ s # <<>> /\ Head(s) = Head(p)
         /\ LikeMatch(Tail(s), Tail(p))

\* title ILIKE $n with $n = "%" + terms + "%": the terms are part of the
\* pattern, so a %, _ or backslash in them is read as pattern syntax
ILike(s, terms) == LikeMatch(ToLower(s), <<"%">> \o ToLower(terms) \o <<"%">>)

----------------------------------------------------------------------------
(* extractPriceFromContent: regexp (?i)price[:\s]+\$?(\d+(?:\.\d+)?) *)

PriceSeparators == {":", " ", "\t", "\n", "\f", "\r"}

PriceWord == <<"p", "r", "i", "c", "e">>

\* first index >= i whose byte is not in S (Len(s)+1 when there is none)
RunEnd(s, i, S) ==
    LET stops == {k \in i..(Len(s) + 1) : k = Len(s) + 1 \/ s[k] \notin S}
    IN CHOOSE k \in stops : \A m \in stops : k <= m

\* index of the first digit of the capture group when the pattern matches
\* at position i, 0 when it does not
PriceDigitsAt(s, i) ==
    IF i + 4 > Len(s) \/ \E k \in 1..5 : LowerByte(s[i + k - 1]) # PriceWord[k] THEN 0
    ELSE LET e == RunEnd(s, i + 5, PriceSeparators)
             d == IF e <= Len(s) /\ s[e] = "$" THEN e + 1 ELSE e
         IN IF e > i + 5 /\ d <= Len(s) /\ s[d] \in Digits THEN d ELSE 0

HasPricePattern(s) == \E i \in 1..Len(s) : PriceDigitsAt(s, i) # 0

RECURSIVE DigitsValue(_)
DigitsValue(ds) ==
    IF Len(ds) = 0 THEN 0
    ELSE 10 * DigitsValue(SubSeq(ds, 1, Len(ds) - 1)) + DigitVal(ds[Len(ds)])

RECURSIVE Pow10(_)
Pow10(n) == IF n = 0 THEN 1 ELSE 10 * Pow10(n - 1)

NoPrice == [num |-> 0, den |-> 1]

\* the number fmt.Sscanf("%f") reads from the capture group starting at d
CapturedPrice(s, d) ==
    LET ie == RunEnd(s, d, Digits)
        fe == IF ie < Len(s) /\ s[ie] = "." /\ s[ie + 1] \in Digits
              THEN RunEnd(s, ie + 1, Digits) ELSE ie
        frac == IF fe > ie THEN SubSeq(s, ie + 1, fe - 1) ELSE <<>>
    IN [num |-> DigitsValue(SubSeq(s, d, ie - 1) \o frac),
        den |-> Pow10(Len(frac))]

\* the leftmost match decides
extractPriceFromContent(content) ==
    LET matches == {i \in 1..Len(content) : PriceDigitsAt(content, i) # 0}
    IN IF matches # {}
       THEN LET i == CHOOSE i \in matches : \A k \in matches : i <= k
            IN CapturedPrice(content, PriceDigitsAt(content, i))
       ELSE NoPrice

----------------------------------------------------------------------------
(* QueryFilters.PriceMin / PriceMax: *float64, nil or a number of dollars *)

Nil == [isNil |-> TRUE, v |-> 0]
Ptr(x) == [isNil |-> FALSE, v |-> x]

PriceAbove(price, bound) == price.num > bound * price.den
PriceBelow(price, bound) == price.num < bound * price.den

\* variant: without the `price == 0` shortcut
PostFilterKeeps_NoShortcut(result, filters) ==
    LET price == extractPriceFromContent(result.item.content)
    IN /\ ~(~filters.priceMax.isNil /\ PriceAbove(price, filters.priceMax.v))
       /\ ~(~filters.priceMin.isNil /\ PriceBelow(price, filters.priceMin.v))

\* the loop body of applyPostFilters: is this result appended to filtered?
PostFilterKeeps(result, filters) ==
    LET price == extractPriceFromContent(result.item.content)
    IN IF price.num = 0 THEN TRUE
       ELSE IF ~filters.priceMax.isNil /\ PriceAbove(price, filters.priceMax.v)
       THEN FALSE
       ELSE IF ~filters.priceMin.isNil /\ PriceBelow(price, filters.priceMin.v)
       THEN FALSE
       ELSE TRUE

applyPostFilters(results, filters) ==
    IF filters.priceMax.isNil /\ filters.priceMin.isNil THEN results
    ELSE SelectSeq(results, LAMBDA r : PostFilterKeeps(r, filters))

----------------------------------------------------------------------------
(* combineResults *)

SearchResult(item, score) == [item |-> item, score |-> score]

\* variant: the boost scales the score and adds nothing
BoostedScore_NoOffset(s) == (s * BoostFactorTenths) \div 10

\* existing.SimilarityScore*0.7 + 0.3
BoostedScore(s) == (s * BoostFactorTenths) \div 10 + BoostOffset

\* resultMap[result.Item.ID] = result, for each semantic result in order
RECURSIVE SeedSemantic(_, _)
SeedSemantic(resultMap, semanticResults) ==
    IF Len(semanticResults) = 0 THEN resultMap
    ELSE LET r == Head(semanticResults)
             rest == [k \in DOMAIN resultMap \ {r.item.id} |-> resultMap[k]]
         IN SeedSemantic((r.item.id :> r) @@ rest, Tail(semanticResults))

\* variant: a text match replaces the semantic entry instead of boosting it
MergeTextItem_Overwrite(resultMap, item) ==
    (item.id :> SearchResult(item, TextBaseScore))
        @@ [k \in DOMAIN resultMap \ {item.id} |-> resultMap[k]]

\* the second loop: boost an id already present, insert a new one at 0.5
MergeTextItem(resultMap, item) ==
    IF item.id \in DOMAIN resultMap
    THEN [resultMap EXCEPT ![item.id].score = BoostedScore(@)]
    ELSE (item.id :> SearchResult(item, TextBaseScore)) @@ resultMap

RECURSIVE MergeText(_, _)
MergeText(resultMap, textResults) ==
    IF Len(textResults) = 0 THEN resultMap
    ELSE MergeText(MergeTextItem(resultMap, Head(textResults)), Tail(textResults))

FuseMap(semanticResults, textResults) ==
    MergeText(SeedSemantic(<<>>, semanticResults), textResults)

Swap(r, i, j) == [r EXCEPT ![i] = r[j], ![j] = r[i]]

\* the two nested loops that sort by score, descending
RECURSIVE SortLoop(_, _, _)
SortLoop(r, i, j) ==
    IF i > Len(r) - 1 THEN r
    ELSE IF j > Len(r) THEN SortLoop(r, i + 1, i + 2)
    ELSE IF r[i].score < r[j].score THEN SortLoop(Swap(r, i, j), i, j + 1)
    ELSE SortLoop(r, i, j + 1)

\* variant: the slice is left in map iteration order
SortByScore_Unsorted(r) == r

SortByScore(r) == SortLoop(r, 1, 2)

Truncate(r, limit) == IF Len(r) > limit THEN SubSeq(r, 1, limit) ELSE r

\* the orders in which `range resultMap` may visit the keys of the map
IterationOrders(resultMap) ==
    {o \in [1..Cardinality(DOMAIN resultMap) -> DOMAIN resultMap] :
        \A i, j \in DOMAIN o : i # j => o[i] # o[j]}

\* variant: the two lists are appended to each other without the map
combineResults_Concat(semanticResults, textResults, limit, order) ==
    Truncate(SortByScore(semanticResults
                \o [i \in 1..Len(textResults) |->
                       SearchResult(textResults[i], TextBaseScore)]), limit)

\* order: the key order of the map iteration that fills the slice
combineResults(semanticResults, textResults, limit, order) ==
    LET resultMap == FuseMap(semanticResults, textResults)
        results == [i \in 1..Len(order) |-> resultMap[order[i]]]
    IN Truncate(SortByScore(results), limit)

----------------------------------------------------------------------------
(* Identifiers: uuid.UUID, its String() form and uuid.Parse *)

UUIDString(id) == <<"uuid", id>>
uuidParse(str) == str[2]

----------------------------------------------------------------------------
(* MetadataService, as far as CreateItem uses it.  URLs and content types  *)
(* are atoms; `net` holds the answers of the network for this call.        *)

BookKeywords ==
    { <<"b","o","o","k">>, <<"a","u","t","h","o","r">>,
      <<"p","u","b","l","i","s","h","e","d">>, <<"i","s","b","n">>,
      <<"c","h","a","p","t","e","r">>, <<"n","o","v","e","l">>,
      <<"r","e","a","d">> }

RecipeKeywords ==
    { <<"r","e","c","i","p","e">>,
      <<"i","n","g","r","e","d","i","e","n","t","s">>,
      <<"c","o","o","k">>, <<"b","a","k","e">>,
      <<"p","r","e","p"," ","t","i","m","e">>,
      <<"s","e","r","v","i","n","g","s">>, <<"c","u","p","s">>,
      <<"t","a","b","l","e","s","p","o","o","n","s">>,
      <<"t","s","p">>, <<"t","b","s","p">> }

MentionsAny(keywords, title, content) ==
    LET lowerTitle == ToLower(title)
        lowerContent == ToLower(content)
    IN \E k \in keywords : Contains(lowerTitle, k) \/ Contains(lowerContent, k)

YouTubeURLs == {"https://youtu.be/abc"}

\* (embedHTML, imageURL) of GetURLMetadata; its error is always nil
GetURLMetadata(url, net) ==
    IF url \in YouTubeURLs
    THEN [embedHTML |-> "youtube-iframe", imageURL |-> "youtube-thumbnail"]
    ELSE [embedHTML |-> IF net.ogImage # "" THEN "url-preview" ELSE "",
          imageURL |-> net.ogImage]

\* cover URL ("" when none) and error flag
DetectBookAndGetCover(title, content, net) ==
    IF ~MentionsAny(BookKeywords, title, content)
    THEN [url |-> "", err |-> FALSE]
    ELSE [url |-> IF net.bookErr THEN "" ELSE net.bookCover, err |-> net.bookErr]

DetectRecipeAndGetImage(title, content) ==
    IF ~MentionsAny(RecipeKeywords, title, content)
    THEN [url |-> "", err |-> FALSE]
    ELSE [url |-> "unsplash-recipe", err |-> FALSE]

\* if imageURL == "" { ... }: the book step and the recipe step are entered
\* only while no image has been resolved
NoImageYet_Ignored(imageURL) == TRUE

NoImageYet(imageURL) == imageURL = ""

\* the metadata goroutine of CreateItem, step by step: the embed markup, the
\* image URL and the value it leaves in req.Type, together with the
\* metadata-service calls it made in order ("url", "book", "recipe"), the
\* network requests those calls sent ("page", "cover") and the cover the
\* book step resolved
MetadataSteps(req, content, net) ==
    LET img0 == req.imageURL
        useURL == req.type = "url" /\ req.sourceURL # "" /\ img0 = ""
        um == GetURLMetadata(req.sourceURL, net)
        embedHTML == IF useURL THEN um.embedHTML ELSE ""
        img1 == IF useURL THEN um.imageURL ELSE img0
        img2 == IF req.type \in {"amazon", "blog"} /\ req.metadata.image # ""
                THEN req.metadata.image ELSE img1
        img3 == IF req.type = "video" /\ req.metadata.thumbnail # ""
                THEN req.metadata.thumbnail ELSE img2
        useBook == NoImageYet(img3)
        book == DetectBookAndGetCover(req.title, content, net)
        gotBook == useBook /\ ~book.err /\ book.url # ""
        img4 == IF gotBook THEN book.url ELSE img3
        type4 == IF gotBook /\ req.type = "" THEN "book" ELSE req.type
        useRecipe == NoImageYet(img4)
        recipe == DetectRecipeAndGetImage(req.title, content)
        gotRecipe == useRecipe /\ ~recipe.err /\ recipe.url # ""
        img5 == IF gotRecipe THEN recipe.url ELSE img4
        type5 == IF gotRecipe /\ type4 = "" THEN "recipe" ELSE type4
    IN [embedHTML |-> embedHTML, imageURL |-> img5, type |-> type5,
        calls |-> (IF useURL THEN <<"url">> ELSE <<>>)
                  \o (IF useBook THEN <<"book">> ELSE <<>>)
                  \o (IF useRecipe THEN <<"recipe">> ELSE <<>>),
        network |-> (IF useURL /\ req.sourceURL \notin YouTubeURLs
                     THEN {"page"} ELSE {})
                    \cup (IF useBook /\ MentionsAny(BookKeywords, req.title, content)
                          THEN {"cover"} ELSE {}),
        bookCover |-> IF gotBook THEN book.url ELSE ""]

\* what CreateItem takes from the metadata goroutine: embed markup, image
\* URL and the value left in req.Type
ResolveMetadata(req, content, net) ==
    LET m == MetadataSteps(req, content, net)
    IN [embedHTML |-> m.embedHTML, imageURL |-> m.imageURL, type |-> m.type]

----------------------------------------------------------------------------
(* ItemService.CreateItem *)

\* content := req.Content; if content == "" { content = req.Title }
PrepareContent(req) == IF req.content = <<>> THEN req.title ELSE req.content

\* the summary used when SummarizeContent returned an error
FallbackSummary(content) ==
    IF Len(content) > SummaryBudget
    THEN SubSeq(content, 1, SummaryBudget) \o Ellipsis
    ELSE content

\* what the provider answers when a call succeeds
AISummary == <<"s", "u", "m">>
AITags == << <<"t", "1">>, <<"t", "2">> >>

\* variant: a failed tag generation leaves a placeholder tag
TagsOrEmpty_Placeholder(tagErr) ==
    IF tagErr THEN << <<"n", "o", "n", "e">> >> ELSE AITags

\* if tagsRes.err != nil { tagsRes.tags = []string{} }
TagsOrEmpty(tagErr) == IF tagErr THEN <<>> ELSE AITags

\* variant: an embedding error is ignored like the other provider errors
EmbeddingFatal_Ignored(embErr) == FALSE

\* if embeddingRes.err != nil { return nil, ... }
EmbeddingFatal(embErr) == embErr

\* variant: a failed AddEmbedding aborts the call
VectorWriteFatal_Abort(chromaErr) == chromaErr

\* AddEmbedding failed: only logged, CreateItem goes on
VectorWriteFatal(chromaErr) == FALSE

\* if err := s.itemRepo.Create(ctx, item); err != nil { return nil, ... }
InsertFatal(dbErr) == dbErr

NoItem == [id |-> 0]

\* variant: the embedding reference is a key of its own, not the item id
NewItem_OwnReference(id, req, content, summary, tags, meta, now) ==
    [id |-> id, title |-> req.title, content |-> content, summary |-> summary,
     sourceURL |-> req.sourceURL, type |-> meta.type, category |-> "",
     tags |-> tags, embeddingID |-> UUIDString(id + 1), imageURL |-> meta.imageURL,
     embedHTML |-> meta.embedHTML, createdAt |-> now]

NewItem(id, req, content, summary, tags, meta, now) ==
    [id |-> id, title |-> req.title, content |-> content, summary |-> summary,
     sourceURL |-> req.sourceURL, type |-> meta.type, category |-> "",
     tags |-> tags, embeddingID |-> UUIDString(id), imageURL |-> meta.imageURL,
     embedHTML |-> meta.embedHTML, createdAt |-> now]

----------------------------------------------------------------------------
(* ItemRepository *)

\* rows.Scan reports an error unless it is given one destination per column
ScanSucceeds(columns, destinations) == columns = destinations

\* ORDER BY created_at DESC
RECURSIVE NewestFirst(_)
NewestFirst(rows) ==
    IF rows = {} THEN <<>>
    ELSE LET top == CHOOSE r \in rows : \A q \in rows : q.createdAt <= r.createdAt
         IN <<top>> \o NewestFirst(rows \ {top})

\* variant: the type predicate is added whenever the filters carry a type
MatchesFilters_TypeAlways(item, filters) ==
    /\ filters.searchTerms # <<>> =>
          \/ ILike(item.title, filters.searchTerms)
          \/ ILike(item.content, filters.searchTerms)
          \/ ILike(item.summary, filters.searchTerms)
    /\ filters.type # "" => item.type = filters.type
    /\ ~filters.dateFrom.isNil => item.createdAt >= filters.dateFrom.v
    /\ ~filters.dateTo.isNil => item.createdAt <= filters.dateTo.v
    /\ filters.tags # {} => \E i \in 1..Len(item.tags) : item.tags[i] \in filters.tags
    /\ filters.author # <<>> =>
          \/ ILike(item.content, filters.author)
          \/ ILike(item.title, filters.author)

\* the WHERE clause SearchItems builds
MatchesFilters(item, filters) ==
    /\ filters.searchTerms # <<>> =>
          \/ ILike(item.title, filters.searchTerms)
          \/ ILike(item.content, filters.searchTerms)
          \/ ILike(item.summary, filters.searchTerms)
    /\ (filters.type # "" /\ filters.searchTerms = <<>>) => item.type = filters.type
    /\ ~filters.dateFrom.isNil => item.createdAt >= filters.dateFrom.v
    /\ ~filters.dateTo.isNil => item.createdAt <= filters.dateTo.v
    /\ filters.tags # {} => \E i \in 1..Len(item.tags) : item.tags[i] \in filters.tags
    /\ filters.author # <<>> =>
          \/ ILike(item.content, filters.author)
          \/ ILike(item.title, filters.author)

\* the rows the query of SearchItems yields
SearchItemsRows(table, filters, limit) ==
    Truncate(NewestFirst({it \in table : MatchesFilters(it, filters)}), limit)

\* SearchItems: the query may fail; every row is then scanned
SearchItems(table, filters, limit, queryErr) ==
    LET rows == SearchItemsRows(table, filters, limit)
    IN IF queryErr THEN [items |-> <<>>, err |-> TRUE]
       ELSE IF Len(rows) > 0 /\ ~ScanSucceeds(SelectedColumns, SearchItemsScanDests)
       THEN [items |-> <<>>, err |-> TRUE]
       ELSE [items |-> rows, err |-> FALSE]

\* GetByIDs: the rows whose id is among ids (in no particular order)
GetByIDs(table, ids, queryErr) ==
    IF ids = {} THEN [items |-> {}, err |-> FALSE]
    ELSE IF queryErr THEN [items |-> {}, err |-> TRUE]
    ELSE LET rows == {it \in table : it.id \in ids}
         IN IF rows # {} /\ ~ScanSucceeds(SelectedColumns, GetByIDsScanDests)
            THEN [items |-> {}, err |-> TRUE]
            ELSE [items |-> rows, err |-> FALSE]

----------------------------------------------------------------------------
(* SearchService *)

\* variant: a distance above 1 is not clamped
Similarity_NoClamp(distance) == ScoreScale - distance

\* similarity := 1.0 - distances[i]; if similarity < 0 { similarity = 0 }
Similarity(distance) ==
    IF ScoreScale - distance < 0 THEN 0 ELSE ScoreScale - distance

\* variant: an id without a row yields a result holding the zero Item
RECURSIVE BuildSemanticResults_ZeroItem(_, _, _)
BuildSemanticResults_ZeroItem(ids, distances, rows) ==
    IF Len(ids) = 0 THEN <<>>
    ELSE LET itemID == uuidParse(Head(ids))
             rest == BuildSemanticResults_ZeroItem(Tail(ids), Tail(distances), rows)
             item == IF \E it \in rows : it.id = itemID
                     THEN CHOOSE it \in rows : it.id = itemID
                     ELSE [id |-> 0, title |-> <<>>, content |-> <<>>,
                           summary |-> <<>>, sourceURL |-> "", type |-> "",
                           category |-> "", tags |-> <<>>, embeddingID |-> "",
                           imageURL |-> "", embedHTML |-> "", createdAt |-> 0]
         IN <<SearchResult(item, Similarity(Head(distances)))>> \o rest

\* the loop that builds the semantic results, in the order of ids
RECURSIVE BuildSemanticResults(_, _, _)
BuildSemanticResults(ids, distances, rows) ==
    IF Len(ids) = 0 THEN <<>>
    ELSE LET itemID == uuidParse(Head(ids))
             rest == BuildSemanticResults(Tail(ids), Tail(distances), rows)
         IN IF \E it \in rows : it.id = itemID
            THEN <<SearchResult(CHOOSE it \in rows : it.id = itemID,
                                Similarity(Head(distances)))>> \o rest
            ELSE rest

\* env: outcome of the embedding call, answer of the vector store, outcome
\* of the GetByIDs query
semanticSearch(table, env) ==
    IF env.embedErr \/ env.queryErr THEN [results |-> <<>>, err |-> TRUE]
    ELSE IF Len(env.ids) = 0 THEN [results |-> <<>>, err |-> FALSE]
    ELSE LET itemIDs == {uuidParse(env.ids[i]) : i \in 1..Len(env.ids)}
             got == GetByIDs(table, itemIDs, env.getByIDsErr)
         IN IF got.err THEN [results |-> <<>>, err |-> TRUE]
            ELSE [results |-> BuildSemanticResults(env.ids, env.distances, got.items),
                  err |-> FALSE]

\* variant: one failing path is enough to fail the search
SearchFails_Either(semanticErr, textErr) == semanticErr \/ textErr

\* if semanticErr != nil && textErr != nil { return ..., error }
SearchFails(semanticErr, textErr) == semanticErr /\ textErr

Distances == {100, 1500}

\* db.Chroma.Query: the k nearest entries (all when there are fewer),
\* nearest first, with their non-negative distances
ChromaQueryAnswers(collection, k) ==
    LET n == IF Cardinality(collection) < k THEN Cardinality(collection) ELSE k
    IN {a \in [ids : [1..n -> collection], distances : [1..n -> Distances]] :
          /\ \A i, j \in 1..n : i # j => a.ids[i] # a.ids[j]
          /\ \A i, j \in 1..n : i < j => a.distances[i] <= a.distances[j]}

----------------------------------------------------------------------------
(* Inputs *)

NoMetadata == [image |-> "", thumbnail |-> ""]

Request(title, content, type) ==
    [title |-> title, content |-> content, sourceURL |-> "", type |-> type,
     imageURL |-> "", metadata |-> NoMetadata]

TitleTea == <<"T", "e", "a">>
TitleLamp == <<"L", "a", "m", "p">>
ContentNote == <<"g", "r", "e", "e", "n", " ", "t", "e", "a", " ", "n", "o", "t", "e">>
ContentCheap == <<"D", "e", "s", "k", " ", "l", "a", "m", "p", " ", "P", "r", "i", "c", "e", ":", " ", "$", "3", "0">>
ContentDear == <<"F", "l", "o", "o", "r", " ", "l", "a", "m", "p", " ", "p", "r", "i", "c", "e", ":", " ", "2", "5", "0", ".", "5", "0", " ", "t", "o", "d", "a", "y">>
ContentFree == <<"G", "i", "f", "t", " ", "p", "r", "i", "c", "e", ":", " ", "$", "0">>
ContentNovel == <<"a", " ", "n", "o", "v", "e", "l">>
ContentAtBudget == Rep("a", SummaryBudget)
ContentOverBudget == Rep("a", SummaryBudget + 1)
\* 101 two-byte characters: 202 bytes
ContentAccented == [i \in 1..202 |-> IF i % 2 = 1 THEN LeadByte ELSE ContByte]

\* the captured inputs of the ingestion runs
Requests ==
    { Request(<<>>, <<>>, "note"),
      Request(TitleTea, <<>>, "note"),
      Request(TitleTea, ContentNote, ""),
      Request(TitleLamp, ContentAtBudget, "note"),
      Request(TitleLamp, ContentOverBudget, "note"),
      Request(<<>>, ContentAccented, "note"),
      Request(TitleTea, ContentNovel, ""),
      [Request(TitleLamp, ContentNote, "url") EXCEPT
          !.sourceURL = "https://example.com/lamp"] }

\* what the network answers to the metadata lookups of one call
NetDown == [ogImage |-> "", bookCover |-> "", bookErr |-> TRUE]
NetUp == [ogImage |-> "og-image", bookCover |-> "cover-url", bookErr |-> FALSE]
NetOutcomes == {NetDown, NetUp}

\* the captured inputs of the retrieval runs
SearchCorpus ==
    { Request(TitleTea, ContentNote, "note"),
      [Request(TitleLamp, ContentDear, "amazon") EXCEPT !.metadata.image = "lamp.jpg"] }

NoFilters ==
    [searchTerms |-> <<>>, type |-> "", dateFrom |-> Nil, dateTo |-> Nil,
     tags |-> {}, author |-> <<>>, priceMin |-> Nil, priceMax |-> Nil]

PriceBounds ==
    { [min |-> Nil, max |-> Nil], [min |-> Ptr(100), max |-> Nil],
      [min |-> Nil, max |-> Ptr(20)], [min |-> Ptr(30), max |-> Ptr(30)] }

NoPriceBounds == [min |-> Nil, max |-> Nil]

----------------------------------------------------------------------------
(* Query interpreter. ParseNaturalLanguageQuery is called by Search but    *)
(* its source is not part of the sources at hand; it is modelled from its  *)
(* specification: pattern rules take date phrases, tag:-style phrases,     *)
(* price-range phrases and author mentions out of the raw string and the   *)
(* rest is the residual search terms, which hold no further extractable    *)
(* structure. The specification names the kinds of phrases and, apart      *)
(* from tag:, not their wording: one wording of each kind is modelled.     *)

\* the raw string split at blanks
RECURSIVE Fields(_)
Fields(s) ==
    IF s = <<>> THEN <<>>
    ELSE IF Head(s) = " " THEN Fields(Tail(s))
    ELSE LET e == RunEnd(s, 1, {c \in {s[k] : k \in 1..Len(s)} : c # " "})
         IN <<SubSeq(s, 1, e - 1)>> \o Fields(SubSeq(s, e, Len(s)))

\* words joined by single blanks
RECURSIVE JoinWords(_)
JoinWords(words) ==
    IF words = <<>> THEN <<>>
    ELSE IF Len(words) = 1 THEN words[1]
    ELSE words[1] \o <<" ">> \o JoinWords(Tail(words))

TagPrefix == <<"t", "a", "g", ":">>
UnderWord == <<"u", "n", "d", "e", "r">>
OverWord == <<"o", "v", "e", "r">>
ByWord == <<"b", "y">>
SinceWord == <<"s", "i", "n", "c", "e">>
UntilWord == <<"u", "n", "t", "i", "l">>

IsTagWord(w) == Len(w) > Len(TagPrefix) /\ IsPrefix(TagPrefix, w)

\* a number of dollars, with or without the dollar sign
NumberDigits(w) == IF w # <<>> /\ w[1] = "$" THEN Tail(w) ELSE w
IsNumberWord(w) ==
    /\ NumberDigits(w) # <<>>
    /\ \A k \in 1..Len(NumberDigits(w)) : NumberDigits(w)[k] \in Digits

\* a point in time, written as its reading of the clock
IsDateWord(w) == w # <<>> /\ \A k \in 1..Len(w) : w[k] \in Digits

\* the phrase that starts at word i: its kind and its number of words
PhraseAt(words, i) ==
    IF IsTagWord(words[i]) THEN [kind |-> "tag", len |-> 1]
    ELSE IF i < Len(words) /\ words[i] = UnderWord /\ IsNumberWord(words[i + 1])
    THEN [kind |-> "priceMax", len |-> 2]
    ELSE IF i < Len(words) /\ words[i] = OverWord /\ IsNumberWord(words[i + 1])
    THEN [kind |-> "priceMin", len |-> 2]
    ELSE IF i < Len(words) /\ words[i] = ByWord
    THEN [kind |-> "author", len |-> 2]
    ELSE IF i < Len(words) /\ words[i] = SinceWord /\ IsDateWord(words[i + 1])
    THEN [kind |-> "dateFrom", len |-> 2]
    ELSE IF i < Len(words) /\ words[i] = UntilWord /\ IsDateWord(words[i + 1])
    THEN [kind |-> "dateTo", len |-> 2]
    ELSE [kind |-> "none", len |-> 0]

\* the filters once the phrase at word i is taken in
ApplyPhrase(filters, words, i) ==
    LET kind == PhraseAt(words, i).kind
    IN IF kind = "tag"
       THEN [filters EXCEPT !.tags = @ \cup {SubSeq(words[i], Len(TagPrefix) + 1,
                                                     Len(words[i]))}]
       ELSE IF kind = "priceMax"
       THEN [filters EXCEPT !.priceMax = Ptr(DigitsValue(NumberDigits(words[i + 1])))]
       ELSE IF kind = "priceMin"
       THEN [filters EXCEPT !.priceMin = Ptr(DigitsValue(NumberDigits(words[i + 1])))]
       ELSE IF kind = "dateFrom"
       THEN [filters EXCEPT !.dateFrom = Ptr(DigitsValue(words[i + 1]))]
       ELSE IF kind = "dateTo"
       THEN [filters EXCEPT !.dateTo = Ptr(DigitsValue(words[i + 1]))]
       ELSE [filters EXCEPT !.author = words[i + 1]]

RemovePhrase(words, i) ==
    SubSeq(words, 1, i - 1) \o SubSeq(words, i + PhraseAt(words, i).len, Len(words))

\* the positions at which a phrase starts
PhraseStarts(words) == {i \in 1..Len(words) : PhraseAt(words, i).kind # "none"}

\* The hints are extracted and the remainder is the residual search
\* terms. The specification requires of the remainder that it holds "no
\* further extractable structure", and gives no procedure: here the
\* leftmost phrase is taken out until no phrase is left. None of the raw
\* queries of the retrieval runs has a phrase that forms only once another
\* one is taken out, so the runs do not depend on that choice.
RECURSIVE ExtractPhrases(_, _)
ExtractPhrases(words, filters) ==
    IF PhraseStarts(words) = {}
    THEN [filters EXCEPT !.searchTerms = JoinWords(words)]
    ELSE LET i == CHOOSE i \in PhraseStarts(words) : \A k \in PhraseStarts(words) : i <= k
         IN ExtractPhrases(RemovePhrase(words, i), ApplyPhrase(filters, words, i))

ParseNaturalLanguageQuery(query) == ExtractPhrases(Fields(query), NoFilters)

\* the raw queries of the retrieval runs
WordLamp == <<"l", "a", "m", "p">>
WordTea == <<"t", "e", "a">>
WordTagDinner == TagPrefix \o <<"d", "i", "n", "n", "e", "r">>

SearchQueries ==
    { <<>>,
      WordLamp,
      JoinWords(<<WordTea, WordTagDinner>>),
      JoinWords(<<OverWord, <<"2", "0">>, UnderWord, <<"$", "1", "0", "0">>>>),
      JoinWords(<<WordTea, SinceWord, <<"2">>>>) }

\* filters := ParseNaturalLanguageQuery(query), for every raw query
ParsedQueries == [q \in SearchQueries |-> ParseNaturalLanguageQuery(q)]

\* the filters ParseNaturalLanguageQuery hands to Search
QueryFilters == {ParsedQueries[q] : q \in SearchQueries}

\* the result of the metadata goroutine for every input and every answer
\* of the network (it depends on nothing else)
ResolvedMetadata ==
    [req \in Requests \cup SearchCorpus |->
        [net \in NetOutcomes |-> ResolveMetadata(req, PrepareContent(req), net)]]

----------------------------------------------------------------------------
(* The services as actions *)

Init ==
    /\ items = {}
    /\ chroma = {}
    /\ nextID = 0
    /\ clock = 0
    /\ last = [op |-> "none"]
    /\ fusion = [pc |-> "off"]
    /\ run = [pc |-> "idle"]
    /\ search = [pc |-> "idle"]

(* ItemService.CreateItem is not one step: its goroutines, the vector      *)
(* write and the insert are steps of their own, and the calls of other     *)
(* requests run in between.                                                *)

\* the channel each goroutine sends its result on
ResultSlot ==
    [summary |-> "summaryChan", tags |-> "tagsChan",
     embedding |-> "embeddingChan", metadata |-> "metadataChan"]

Write(task, target) == [task |-> task, target |-> target]

\* the error outcomes of a call that is given ctx (an HTTP request built
\* with NewRequestWithContext, a pgx query): once the caller's scope has
\* expired the call fails, before that it has one of the outcomes errs
ScopedOutcomes(expired, errs) == IF expired THEN {TRUE} ELSE errs

\* the answers to the metadata lookups, which are given ctx as well
ScopedNetOutcomes(expired, nets) == IF expired THEN {NetDown} ELSE nets

\* lines 30-75: id, content, the three channels and the three goroutines,
\* each started with content; errs and nets are the outcomes the provider
\* calls and the metadata lookups of this call may have
StartCreateFrom(requests, errs, nets) ==
    /\ run.pc \in {"idle", "done"}
    /\ nextID < MaxItems
    /\ \E req \in requests :
          run' = [pc |-> "wait3", req0 |-> req, req |-> req, id |-> nextID + 1,
                  errs |-> errs, nets |-> nets,
                  content |-> PrepareContent(req),
                  sent |-> [summary |-> PrepareContent(req),
                            tags |-> PrepareContent(req),
                            embedding |-> PrepareContent(req)],
                  tasks |-> [summary |-> "running", tags |-> "running",
                             embedding |-> "running", metadata |-> "none"],
                  sumErr |-> FALSE, tagErr |-> FALSE, embErr |-> FALSE,
                  summary |-> <<>>, tags |-> <<>>,
                  meta |-> [embedHTML |-> "", imageURL |-> ""],
                  writes |-> {}, vectorWrite |-> "none", inserts |-> 0,
                  insert |-> "none",
                  err |-> "", item |-> NoItem,
                  expired |-> FALSE, expiredAt |-> "none"]
    /\ nextID' = nextID + 1
    /\ UNCHANGED <<items, chroma, clock, last, fusion, search>>

\* go func() { summary, err := SummarizeContent(...); summaryChan <- ... }
SummaryTask ==
    /\ run.pc # "idle" /\ run.tasks.summary = "running"
    /\ \E e \in ScopedOutcomes(run.expired, run.errs) :
          run' = [run EXCEPT !.tasks.summary = "done", !.sumErr = e,
                             !.writes = @ \cup {Write("summary", "summaryChan")}]
    /\ UNCHANGED <<items, chroma, nextID, clock, last, fusion, search>>

TagsTask ==
    /\ run.pc # "idle" /\ run.tasks.tags = "running"
    /\ \E e \in ScopedOutcomes(run.expired, run.errs) :
          run' = [run EXCEPT !.tasks.tags = "done", !.tagErr = e,
                             !.writes = @ \cup {Write("tags", "tagsChan")}]
    /\ UNCHANGED <<items, chroma, nextID, clock, last, fusion, search>>

EmbeddingTask ==
    /\ run.pc # "idle" /\ run.tasks.embedding = "running"
    /\ \E e \in ScopedOutcomes(run.expired, run.errs) :
          run' = [run EXCEPT !.tasks.embedding = "done", !.embErr = e,
                             !.writes = @ \cup {Write("embedding", "embeddingChan")}]
    /\ UNCHANGED <<items, chroma, nextID, clock, last, fusion, search>>

\* lines 78-108: the three receives, the fallbacks, the return on an
\* embedding error and otherwise the start of the metadata goroutine
JoinProviders ==
    /\ run.pc = "wait3"
    /\ \A t \in {"summary", "tags", "embedding"} : run.tasks[t] = "done"
    /\ LET joined == [run EXCEPT
                         !.summary = IF run.sumErr THEN FallbackSummary(run.content)
                                     ELSE AISummary,
                         !.tags = TagsOrEmpty(run.tagErr)]
       IN run' = IF EmbeddingFatal(run.embErr)
                 THEN [joined EXCEPT !.pc = "done", !.err = "embedding"]
                 ELSE [joined EXCEPT !.pc = "meta", !.tasks.metadata = "running"]
    /\ UNCHANGED <<items, chroma, nextID, clock, last, fusion, search>>

\* lines 108-160: the metadata goroutine; it assigns req.Type when it
\* detects a book or a recipe
MetadataTask ==
    /\ run.pc # "idle" /\ run.tasks.metadata = "running"
    /\ \E net \in ScopedNetOutcomes(run.expired, run.nets) :
          LET m == ResolvedMetadata[run.req][net]
          IN run' = [run EXCEPT
                        !.tasks.metadata = "done",
                        !.meta = [embedHTML |-> m.embedHTML, imageURL |-> m.imageURL],
                        !.req.type = m.type,
                        !.writes = @ \cup {Write("metadata", "metadataChan")}
                                     \cup (IF m.type # run.req.type
                                           THEN {Write("metadata", "req.Type")}
                                           ELSE {})]
    /\ UNCHANGED <<items, chroma, nextID, clock, last, fusion, search>>

\* lines 162-174: the receive from metadataChan and AddEmbedding
StoreVector ==
    /\ run.pc = "meta" /\ run.tasks.metadata = "done"
    /\ \E chromaErr \in BOOLEAN :
          /\ chroma' = IF chromaErr THEN chroma ELSE chroma \cup {UUIDString(run.id)}
          /\ run' = [run EXCEPT
                        !.vectorWrite = IF chromaErr THEN "failed" ELSE "ok",
                        !.pc = IF VectorWriteFatal(chromaErr) THEN "done" ELSE "insert",
                        !.err = IF VectorWriteFatal(chromaErr) THEN "vector" ELSE ""]
    /\ UNCHANGED <<items, nextID, clock, last, fusion, search>>

\* variant: the item is saved while the metadata goroutine may still run
InsertEnabled_BeforeMetadata(pc) == pc \in {"meta", "insert"}

\* the insert is reached after AddEmbedding returned
InsertEnabled(pc) == pc = "insert"

\* lines 177-196: the item is built and saved by one itemRepo.Create
InsertItem ==
    /\ InsertEnabled(run.pc)
    /\ \E dbErr \in ScopedOutcomes(run.expired, BOOLEAN) :
          LET item == NewItem(run.id, run.req, run.content, run.summary, run.tags,
                              [embedHTML |-> run.meta.embedHTML,
                               imageURL |-> run.meta.imageURL,
                               type |-> run.req.type], clock + 1)
          IN /\ items' = IF dbErr THEN items ELSE items \cup {item}
             /\ run' = [run EXCEPT
                           !.pc = "done", !.inserts = @ + 1,
                           !.insert = IF dbErr THEN "failed" ELSE "ok",
                           !.err = IF InsertFatal(dbErr) THEN "save" ELSE "",
                           !.item = IF InsertFatal(dbErr) THEN NoItem ELSE item]
    /\ clock' = clock + 1
    /\ UNCHANGED <<chroma, nextID, last, fusion, search>>

\* The reads are the requests of one client, which sends one request at a
\* time: last and search hold what its latest request was answered, and a
\* new request of it starts once the one before has returned.
ReaderIdle == search.pc \in {"idle", "done"}

GetItem ==
    /\ ReaderIdle
    /\ \E id \in 1..MaxItems :
          last' = [op |-> "GetItem", id |-> id,
                   found |-> {it \in items : it.id = id}]
    /\ search' = [pc |-> "idle"]
    /\ UNCHANGED <<items, chroma, nextID, clock, fusion, run>>

GetAllItems ==
    /\ ReaderIdle
    /\ last' = [op |-> "GetAllItems", result |-> NewestFirst(items)]
    /\ search' = [pc |-> "idle"]
    /\ UNCHANGED <<items, chroma, nextID, clock, fusion, run>>

\* variant: the row is kept and its content is blanked
DeleteRow_Blank(table, id) ==
    {IF it.id = id THEN [it EXCEPT !.content = <<>>] ELSE it : it \in table}

\* DELETE FROM items WHERE id = $1
DeleteRow(table, id) == {it \in table : it.id # id}

\* ItemService.DeleteItem, a request of any other client at any time; the
\* vector entry is left in place
DeleteItem ==
    /\ \E id \in 1..MaxItems : items' = DeleteRow(items, id)
    /\ UNCHANGED <<chroma, nextID, clock, last, fusion, run, search>>

(* SearchService.Search is not one step either: the vector query reads the *)
(* collection, GetByIDs reads the table and SearchItems reads the table    *)
(* again, and the calls of other requests run in between.                  *)

\* the outcomes of GenerateEmbedding and of db.Chroma.Query in one
\* semanticSearch (GetByIDs has not been called yet)
SearchEnvs(k) ==
    { [embedErr |-> TRUE, queryErr |-> FALSE, getByIDsErr |-> FALSE,
       ids |-> <<>>, distances |-> <<>>],
      [embedErr |-> FALSE, queryErr |-> TRUE, getByIDsErr |-> FALSE,
       ids |-> <<>>, distances |-> <<>>] }
    \cup { [embedErr |-> FALSE, queryErr |-> FALSE, getByIDsErr |-> FALSE,
            ids |-> a.ids, distances |-> a.distances] :
              a \in ChromaQueryAnswers(chroma, k) }

\* variant: the raw query is embedded
EmbeddedText_Raw(query, filters) == query

\* semanticSearch(ctx, filters.SearchTerms, ...) hands its query argument to
\* GenerateEmbedding
EmbeddedText(query, filters) == filters.searchTerms

\* limit*2, the number of candidates asked of either path
CandidateCount(limit) == limit * 2

\* search_service.go:31-63: the query is parsed, the residual terms are
\* embedded and the vector store is queried; semanticSearch returns here
\* when one of the two calls failed or the store answered no id. A search
\* writes to neither store, so a search that follows another one sees
\* nothing a first search started at the same point does not see: the
\* reader starts a search when it has no answer of a search at hand.
StartSearchFrom(queries, limits) ==
    /\ search.pc = "idle"
    /\ \E query \in queries, limit \in limits :
          LET filters == ParsedQueries[query]
          IN \E env \in SearchEnvs(CandidateCount(limit)) :
                LET early == semanticSearch({}, env)
                IN search' = [pc |-> IF env.embedErr \/ env.queryErr \/ Len(env.ids) = 0
                                     THEN "text" ELSE "rows",
                              query |-> query, filters |-> filters, limit |-> limit,
                              embedded |-> EmbeddedText(query, filters),
                              vectorK |-> CandidateCount(limit),
                              env |-> env, vectorIDs |-> env.ids,
                              tableAtGetByIDs |-> {},
                              semErr |-> early.err,
                              semanticResults |-> early.results]
    /\ last' = [op |-> "none"]
    /\ UNCHANGED <<items, chroma, nextID, clock, fusion, run>>

\* search_service.go:69-117: GetByIDs reads the rows of the answered ids
\* and the semantic results are built from the rows found
GetRows ==
    /\ search.pc = "rows"
    /\ \E getByIDsErr \in BOOLEAN :
          LET sem == semanticSearch(items, [search.env EXCEPT !.getByIDsErr = getByIDsErr])
          IN search' = [search EXCEPT !.pc = "text", !.tableAtGetByIDs = items,
                                      !.semErr = sem.err,
                                      !.semanticResults = sem.results]
    /\ UNCHANGED <<items, chroma, nextID, clock, last, fusion, run>>

\* search_service.go:37-50: SearchItems reads the table, then the two lists
\* are fused and post-filtered and Search returns
TextSearch ==
    /\ search.pc = "text"
    /\ \E sqlErr \in BOOLEAN :
          LET text == SearchItems(items, search.filters,
                                  CandidateCount(search.limit), sqlErr)
              call == [search EXCEPT !.pc = "done"] @@
                      [sqlFilters |-> search.filters,
                       sqlLimit |-> CandidateCount(search.limit),
                       tableAtSearchItems |-> items,
                       textErr |-> text.err, sqlErr |-> sqlErr,
                       textResults |-> text.items]
          IN IF SearchFails(search.semErr, text.err)
             THEN search' = call @@ [err |-> TRUE, combined |-> <<>>, results |-> <<>>]
             ELSE \E order \in IterationOrders(FuseMap(search.semanticResults, text.items)) :
                    LET combined == combineResults(search.semanticResults, text.items,
                                                   search.limit, order)
                    IN search' = call @@
                          [err |-> FALSE, combined |-> combined,
                           results |-> applyPostFilters(combined, search.filters)]
    /\ UNCHANGED <<items, chroma, nextID, clock, last, fusion, run>>

\* CreateItem calls with every captured request and every outcome of the
\* provider calls and of the metadata lookups
StartCreateAny == StartCreateFrom(Requests, BOOLEAN, NetOutcomes)

Next ==
    \/ StartCreateAny \/ SummaryTask \/ TagsTask \/ EmbeddingTask \/ JoinProviders
    \/ MetadataTask \/ StoreVector \/ InsertItem
    \/ GetItem \/ GetAllItems \/ DeleteItem

Spec == Init /\ [][Next]_vars

\* ingestion in the retrieval runs: the provider answers every call and
\* the lookups succeed; the vector store may refuse the write and the
\* insert may fail
StartCapture == StartCreateFrom(SearchCorpus, {FALSE}, {NetUp})

StartSearch == StartSearchFrom(SearchQueries, 1..MaxLimit)

NextSearch ==
    \/ StartCapture \/ SummaryTask \/ TagsTask \/ EmbeddingTask \/ JoinProviders
    \/ MetadataTask \/ StoreVector \/ InsertItem
    \/ DeleteItem \/ StartSearch \/ GetRows \/ TextSearch

SpecSearch == Init /\ [][NextSearch]_vars

----------------------------------------------------------------------------
(* Fusion and post-filtering on their own: combineResults followed by      *)
(* applyPostFilters, applied to result lists drawn from bounded sets.      *)

MaxFuse == 2        \* longest semantic / text result list

\* distances the vector store may report (thousandths)
FusionDistances == {0, 100, 700, 1500}

\* the scores semanticSearch derives from them
FusionScores == {Similarity(d) : d \in FusionDistances}

FusionItem(id, content) ==
    [id |-> id, title |-> TitleLamp, content |-> content, summary |-> AISummary,
     sourceURL |-> "", type |-> "amazon", category |-> "", tags |-> AITags,
     embeddingID |-> UUIDString(id), imageURL |-> "", embedHTML |-> "",
     createdAt |-> id]

FusionItems ==
    { FusionItem(1, ContentNote), FusionItem(2, ContentCheap),
      FusionItem(3, ContentFree) }

\* lists without repeated ids
DistinctLists(S) ==
    UNION { {l \in [1..n -> S] : \A i, j \in 1..n : i # j => l[i].item.id # l[j].item.id}
            : n \in 0..MaxFuse }

\* lists in which the vector store reports one id twice
RepeatedLists ==
    { l \in { <<SearchResult(it, a), SearchResult(it, b)>> :
                 it \in FusionItems, a \in FusionScores, b \in FusionScores } :
        l[1].score # l[2].score }

SemanticLists ==
    DistinctLists({SearchResult(it, sc) : it \in FusionItems, sc \in FusionScores})
        \cup {l \in RepeatedLists : Len(l) <= MaxFuse}

TextLists ==
    { [i \in 1..Len(l) |-> l[i].item] :
        l \in DistinctLists({SearchResult(it, 0) : it \in FusionItems}) }

InitFusion ==
    /\ items = {}
    /\ chroma = {}
    /\ nextID = 0
    /\ clock = 0
    /\ last = [op |-> "none"]
    /\ fusion \in [pc : {"start"}, semanticResults : SemanticLists,
                   textResults : TextLists, limit : 1..MaxLimit,
                   filters : {[NoFilters EXCEPT !.priceMin = b.min, !.priceMax = b.max] :
                                 b \in PriceBounds},
                   resultMap : {<<>>}, combined : {<<>>}, results : {<<>>}]
    /\ run = [pc |-> "idle"]
    /\ search = [pc |-> "idle"]

Combine ==
    /\ fusion.pc = "start"
    /\ \E order \in IterationOrders(FuseMap(fusion.semanticResults, fusion.textResults)) :
          fusion' = [fusion EXCEPT
                        !.pc = "combined",
                        !.resultMap = FuseMap(fusion.semanticResults, fusion.textResults),
                        !.combined = combineResults(fusion.semanticResults,
                                                    fusion.textResults,
                                                    fusion.limit, order)]
    /\ UNCHANGED <<items, chroma, nextID, clock, last, run, search>>

PostFilter ==
    /\ fusion.pc = "combined"
    /\ fusion' = [fusion EXCEPT
                     !.pc = "done",
                     !.results = applyPostFilters(fusion.combined, fusion.filters)]
    /\ UNCHANGED <<items, chroma, nextID, clock, last, run, search>>

NextFusion == Combine \/ PostFilter

SpecFusion == InitFusion /\ [][NextFusion]_vars

----------------------------------------------------------------------------
(* The metadata goroutine on its own: one request and one set of network   *)
(* answers are drawn, and the goroutine's steps are applied to them.       *)

ContentRecipe == <<"t", "e", "a", " ", "r", "e", "c", "i", "p", "e">>
ContentCookbook == <<"a", " ", "c", "o", "o", "k", "b", "o", "o", "k">>

\* the book lookup answers without error and without a cover
NetNoCover == [ogImage |-> "", bookCover |-> "", bookErr |-> FALSE]

MetadataTypes == {"", "url", "video", "amazon", "blog", "note"}

MetadataRequests ==
    { [title |-> TitleTea, content |-> c, sourceURL |-> u, type |-> t,
       imageURL |-> i, metadata |-> [image |-> mi, thumbnail |-> mt]] :
        c \in {ContentNote, ContentNovel, ContentRecipe, ContentCookbook},
        u \in {"", "https://youtu.be/abc", "https://example.com/lamp"},
        t \in MetadataTypes,
        i \in {"", "caller.jpg"},
        mi \in {"", "meta.jpg"},
        mt \in {"", "thumb.jpg"} }

InitMetadata ==
    /\ items = {}
    /\ chroma = {}
    /\ nextID = 0
    /\ clock = 0
    /\ last \in {[op |-> "request", req |-> r, net |-> n] :
                    r \in MetadataRequests, n \in NetOutcomes \cup {NetNoCover}}
    /\ fusion = [pc |-> "off"]
    /\ run = [pc |-> "idle"]
    /\ search = [pc |-> "idle"]

Resolve ==
    /\ last.op = "request"
    /\ last' = [op |-> "resolve", req |-> last.req, net |-> last.net,
                meta |-> MetadataSteps(last.req, PrepareContent(last.req), last.net)]
    /\ UNCHANGED <<items, chroma, nextID, clock, fusion, run, search>>

NextMetadata == Resolve

SpecMetadata == InitMetadata /\ [][NextMetadata]_vars

----------------------------------------------------------------------------
(* ItemRepository.SearchItems on its own: a table, filters and a limit are *)
(* drawn and the query is run on them.                                     *)

ContentByJane == <<"l", "a", "m", "p", " ", "b", "y", " ", "J", "a", "n", "e">>

Row(id, title, content, type, tags) ==
    [id |-> id, title |-> title, content |-> content, summary |-> AISummary,
     sourceURL |-> "", type |-> type, category |-> "", tags |-> tags,
     embeddingID |-> UUIDString(id), imageURL |-> "", embedHTML |-> "",
     createdAt |-> id]

RepositoryRows ==
    { Row(1, TitleLamp, ContentCheap, "amazon", AITags),
      Row(2, TitleTea, ContentNote, "note", <<>>),
      Row(3, TitleLamp, ContentByJane, "note", <<AITags[1]>>) }

WordJane == <<"j", "a", "n", "e">>

\* search terms that carry a pattern character of LIKE
TermsWildcard == <<"l", "_", "m", "p">>

RepositoryFilters ==
    { [searchTerms |-> t, type |-> ty, dateFrom |-> df, dateTo |-> dt,
       tags |-> tg, author |-> au, priceMin |-> Nil, priceMax |-> Nil] :
        t \in {<<>>, WordLamp, TermsWildcard},
        ty \in {"", "note", "amazon"},
        df \in {Nil, Ptr(2)},
        dt \in {Nil, Ptr(2)},
        tg \in {{}, {AITags[1]}},
        au \in {<<>>, WordJane} }

InitRepository ==
    /\ items \in SUBSET RepositoryRows
    /\ chroma = {}
    /\ nextID = 0
    /\ clock = 0
    /\ last \in {[op |-> "filters", filters |-> f, limit |-> l] :
                    f \in RepositoryFilters, l \in 1..MaxLimit}
    /\ fusion = [pc |-> "off"]
    /\ run = [pc |-> "idle"]
    /\ search = [pc |-> "idle"]

\* one call of SearchItems: the rows its query matches, the rows the same
\* query matches without a type in the filters and without a limit, and
\* what the call returns
RunSearchItems ==
    /\ last.op = "filters"
    /\ \E queryErr \in BOOLEAN :
          last' = [op |-> "SearchItems", filters |-> last.filters,
                   limit |-> last.limit, queryErr |-> queryErr,
                   rows |-> SearchItemsRows(items, last.filters, last.limit),
                   typeless |-> SearchItemsRows(items, [last.filters EXCEPT !.type = ""],
                                                Cardinality(items)),
                   result |-> SearchItems(items, last.filters, last.limit, queryErr)]
    /\ UNCHANGED <<items, chroma, nextID, clock, fusion, run, search>>

NextRepository == RunSearchItems

SpecRepository == InitRepository /\ [][NextRepository]_vars

----------------------------------------------------------------------------
(* AIService on its own: a service built from the environment answers a    *)
(* sequence of calls; each backend answers each call on its own.           *)

\* NewAIService: AI_PROVIDER defaults to "gemini"; both keys are read
NewAIService(env) ==
    [provider |-> IF env.provider = "" THEN "gemini" ELSE env.provider,
     geminiKey |-> env.geminiKey, openaiKey |-> env.openaiKey]

\* if s.provider == "gemini" { gemini } else { openai }
Backend(service) == IF service.provider = "gemini" THEN "gemini" ELSE "openai"

\* each of the four calls goes to the backend of the configured provider
\* and returns what that backend answers: the backends called, in order,
\* and whether an error is returned
SummarizeContent(service, answers) ==
    [calls |-> <<Backend(service)>>, err |-> answers[Backend(service)] # "ok"]

GenerateEmbedding(service, answers) ==
    [calls |-> <<Backend(service)>>, err |-> answers[Backend(service)] # "ok"]

GenerateTags(service, answers) ==
    [calls |-> <<Backend(service)>>, err |-> answers[Backend(service)] # "ok"]

CategorizeContent(service, answers) ==
    [calls |-> <<Backend(service)>>, err |-> answers[Backend(service)] # "ok"]

ProviderEnvs ==
    [provider : {"", "gemini", "openai"}, geminiKey : {"", "gk"}, openaiKey : {"", "ok"}]

\* what the two backends answer to one call
BackendAnswers ==
    [gemini : {"ok", "quota", "unavailable"}, openai : {"ok", "quota", "unavailable"}]

InitProvider ==
    /\ items = {}
    /\ chroma = {}
    /\ nextID = 0
    /\ clock = 0
    /\ last \in {[op |-> "NewAIService", service |-> NewAIService(env)] :
                    env \in ProviderEnvs}
    /\ fusion = [pc |-> "off"]
    /\ run = [pc |-> "idle"]
    /\ search = [pc |-> "idle"]

\* what a caller of the service observes of one call
CallRecord(op, service, answers, result) ==
    [op |-> op, service |-> service, answers |-> answers,
     calls |-> result.calls, err |-> result.err]

Summarize ==
    /\ \E answers \in BackendAnswers :
          last' = CallRecord("SummarizeContent", last.service, answers,
                             SummarizeContent(last.service, answers))
    /\ UNCHANGED <<items, chroma, nextID, clock, fusion, run, search>>

Embed ==
    /\ \E answers \in BackendAnswers :
          last' = CallRecord("GenerateEmbedding", last.service, answers,
                             GenerateEmbedding(last.service, answers))
    /\ UNCHANGED <<items, chroma, nextID, clock, fusion, run, search>>

Tag ==
    /\ \E answers \in BackendAnswers :
          last' = CallRecord("GenerateTags", last.service, answers,
                             GenerateTags(last.service, answers))
    /\ UNCHANGED <<items, chroma, nextID, clock, fusion, run, search>>

Categorize ==
    /\ \E answers \in BackendAnswers :
          last' = CallRecord("CategorizeContent", last.service, answers,
                             CategorizeContent(last.service, answers))
    /\ UNCHANGED <<items, chroma, nextID, clock, fusion, run, search>>

NextProvider == Summarize \/ Embed \/ Tag \/ Categorize

SpecProvider == InitProvider /\ [][NextProvider]_vars

----------------------------------------------------------------------------
(* The interleaving runs: the steps of one CreateItem call with GetItem,    *)
(* GetAllItems, DeleteItem and the steps of a Search of other requests.     *)

TaskRequests ==
    { Request(TitleTea, ContentNote, "note"), Request(TitleTea, ContentNovel, "") }

StartCreate == StartCreateFrom(TaskRequests, BOOLEAN, NetOutcomes)

\* a search of another request while the call is in flight
StartSearchMeanwhile == StartSearchFrom({<<>>}, {1})

NextTasks ==
    \/ StartCreate \/ SummaryTask \/ TagsTask \/ EmbeddingTask \/ JoinProviders
    \/ MetadataTask \/ StoreVector \/ InsertItem
    \/ GetItem \/ GetAllItems \/ DeleteItem
    \/ StartSearchMeanwhile \/ GetRows \/ TextSearch

SpecTasks == Init /\ [][NextTasks]_vars

----------------------------------------------------------------------------
(* CreateItem under a caller scope that may expire while the call is in   *)
(* flight. The provider calls, the metadata lookups and itemRepo.Create   *)
(* are given ctx; db.Chroma.AddEmbedding is not (part_002:169).            *)

\* the caller's ctx is cancelled or reaches its deadline
ExpireScope ==
    /\ run.pc \in {"wait3", "meta", "insert"}
    /\ ~run.expired
    /\ run' = [run EXCEPT !.expired = TRUE, !.expiredAt = run.pc]
    /\ UNCHANGED <<items, chroma, nextID, clock, last, fusion, search>>

NextExpiry ==
    \/ StartCreate \/ SummaryTask \/ TagsTask \/ EmbeddingTask \/ JoinProviders
    \/ MetadataTask \/ StoreVector \/ InsertItem \/ ExpireScope

SpecExpiry == Init /\ [][NextExpiry]_vars

----------------------------------------------------------------------------
(* Properties of CreateItem, checked under Spec *)

\* the call has returned
Created == run.pc = "done"

\* C1: when the embedding generation fails, CreateItem returns an error,
\* writes neither to the vector store nor to the relational store, and no
\* row or vector entry with the generated id exists, whatever the other
\* provider calls returned.
C1_EmbeddingFailureWritesNothing ==
    (Created /\ run.embErr) =>
        /\ run.err = "embedding"
        /\ run.item = NoItem
        /\ run.vectorWrite = "none"
        /\ run.insert = "none"
        /\ ~\E it \in items : it.id = run.id
        /\ UUIDString(run.id) \notin chroma

C1_Witness ==
    /\ Created /\ run.embErr /\ run.sumErr /\ ~run.tagErr
    /\ run.err = "embedding"

\* C2 (as claimed): whenever the embedding succeeds the returned item has
\* non-empty content; an input with empty content gets the title as its
\* content, persisted, and that same text is what was sent to summarize,
\* generate-tags and embed.
C2_ContentNeverEmpty ==
    (Created /\ ~run.embErr /\ run.item # NoItem) =>
        /\ run.item.content # <<>>
        /\ run.req0.content = <<>> =>
              /\ run.item.content = run.req0.title
              /\ run.insert = "ok"
        /\ run.sent.summary = run.item.content
        /\ run.sent.tags = run.item.content
        /\ run.sent.embedding = run.item.content

\* C3 (as claimed): when summarization fails, the embedding succeeds and
\* the insert is not refused, CreateItem returns the item without error and
\* its summary is the whole content when that has at most 200 characters,
\* otherwise its first 200 characters followed by "...".
C3_FallbackSummaryByCharacters ==
    (Created /\ run.sumErr /\ ~run.embErr /\ run.insert # "failed") =>
        /\ run.err = ""
        /\ run.item # NoItem
        /\ run.item.summary =
              IF CharLen(run.item.content) <= SummaryBudget
              THEN run.item.content
              ELSE CharPrefix(run.item.content, SummaryBudget) \o Ellipsis

\* C5 (as claimed): CreateItem returns an error only when the embedding
\* generation failed.
C5_OnlyEmbeddingFailurePropagates ==
    (Created /\ run.err # "") => run.embErr

\* C5 (amended): CreateItem returns an error exactly when the embedding
\* generation failed or the relational insert failed; failures of
\* summarization, tag generation, metadata resolution and of the
\* vector-store write never surface.
C5_ErrorIffEmbeddingOrInsertFails ==
    Created =>
        /\ run.err # "" <=> (run.embErr \/ run.insert = "failed")
        /\ run.err = "embedding" <=> run.embErr
        /\ run.err = "save" <=> (~run.embErr /\ run.insert = "failed")

C5_Witness ==
    /\ Created /\ run.err = ""
    /\ run.sumErr /\ run.tagErr /\ run.vectorWrite = "failed"
    /\ run.req0.type = "url" /\ run.item.imageURL = ""
    /\ run.item \in items

----------------------------------------------------------------------------
(* Properties of Search, checked under SpecSearch *)

\* the search has returned
Searched == search.pc = "done"

NoPriceFilter(filters) == filters.priceMin.isNil /\ filters.priceMax.isNil

\* C4 (as claimed): when the embedding was generated and AddEmbedding
\* fails, CreateItem still inserts the row and returns the item without
\* error, and a row that has no vector entry is returned by the relational
\* text search whenever it matches the filters (and fits the limit).
C4_VectorWriteFailureLeavesTextRetrieval ==
    /\ (Created /\ ~run.embErr /\ run.vectorWrite = "failed"
            /\ run.insert # "failed") =>
          /\ run.err = ""
          /\ run.insert = "ok"
          /\ run.item.embeddingID \notin chroma
    /\ (Searched /\ ~search.sqlErr) =>
          \A it \in search.tableAtSearchItems :
             (/\ it.embeddingID \notin chroma
              /\ MatchesFilters(it, search.filters)
              /\ Cardinality({m \in search.tableAtSearchItems : MatchesFilters(m, search.filters)})
                    <= 2 * search.limit)
             => \E j \in DOMAIN search.textResults : search.textResults[j] = it

\* C6: Search returns an error exactly when both paths failed; when only
\* the vector path failed every result is a text result scored 0.5, when
\* only the text path failed every result is one of the semantic results.
C6_SearchFailsIffBothPathsFail ==
    Searched =>
        /\ search.err <=> (search.semErr /\ search.textErr)
        /\ (search.semErr /\ ~search.textErr) =>
              \A i \in DOMAIN search.results :
                 /\ search.results[i].score = TextBaseScore
                 /\ \E j \in DOMAIN search.textResults :
                       search.textResults[j] = search.results[i].item
        /\ (search.textErr /\ ~search.semErr) =>
              \A i \in DOMAIN search.results :
                 \E j \in DOMAIN search.semanticResults :
                    search.semanticResults[j] = search.results[i]

C6_Witness ==
    /\ Searched /\ search.textErr /\ ~search.semErr /\ ~search.err
    /\ Len(search.results) > 0

\* C9 (as claimed): when the vector path is unavailable, the relational
\* query runs, there is no price filter and n <= limit rows match, Search
\* returns exactly those n items, each scored 0.5, and no error.
C9_TextOnlyDegradation ==
    (/\ Searched /\ search.semErr /\ ~search.sqlErr
     /\ NoPriceFilter(search.filters)
     /\ Cardinality({m \in search.tableAtSearchItems : MatchesFilters(m, search.filters)}) <= search.limit)
    => /\ ~search.err
       /\ {search.results[i].item : i \in DOMAIN search.results}
             = {m \in search.tableAtSearchItems : MatchesFilters(m, search.filters)}
       /\ Len(search.results)
             = Cardinality({m \in search.tableAtSearchItems : MatchesFilters(m, search.filters)})
       /\ \A i \in DOMAIN search.results : search.results[i].score = TextBaseScore

----------------------------------------------------------------------------
(* Properties of the fusion and of the price post-filter, checked under    *)
(* SpecFusion *)

Fused == fusion.pc \in {"combined", "done"}

InSemantic(id) ==
    \E j \in DOMAIN fusion.semanticResults : fusion.semanticResults[j].item.id = id

InText(id) ==
    \E j \in DOMAIN fusion.textResults : fusion.textResults[j].id = id

\* the similarity of the last semantic result with this id (the one the
\* map keeps)
SemanticScore(id) ==
    LET j == CHOOSE j \in DOMAIN fusion.semanticResults :
                /\ fusion.semanticResults[j].item.id = id
                /\ \A k \in DOMAIN fusion.semanticResults :
                      k > j => fusion.semanticResults[k].item.id # id
    IN fusion.semanticResults[j].score

\* C7 (as claimed): an item present in both lists gets a fused score
\* strictly higher than its vector similarity s and strictly higher than
\* the text-only score 0.5, for every s in [0,1].
C7_BoostBeatsEitherPath ==
    Fused =>
        \A id \in DOMAIN fusion.resultMap :
           (InSemantic(id) /\ InText(id)) =>
              /\ fusion.resultMap[id].score > SemanticScore(id)
              /\ fusion.resultMap[id].score > TextBaseScore

\* C7 (amended): an item present in both lists gets a fused score that is
\* at least its vector similarity s, strictly higher when s < 1, and that
\* is strictly higher than the text-only score 0.5 exactly when s > 2/7.
C7_BoostBeatsVectorBelowOne ==
    Fused =>
        \A id \in DOMAIN fusion.resultMap :
           (InSemantic(id) /\ InText(id)) =>
              /\ fusion.resultMap[id].score >= SemanticScore(id)
              /\ SemanticScore(id) < ScoreScale =>
                    fusion.resultMap[id].score > SemanticScore(id)
              /\ fusion.resultMap[id].score > TextBaseScore
                    <=> 7 * SemanticScore(id) > 2 * ScoreScale

C7_Witness ==
    /\ Fused
    /\ \E id \in DOMAIN fusion.resultMap :
          /\ InSemantic(id) /\ InText(id)
          /\ SemanticScore(id) = 300
          /\ fusion.resultMap[id].score > TextBaseScore

\* C8: in the fused list an item of both lists with similarity s is scored
\* 0.7*s + 0.3 (0.9 gives 0.93), an item of the text list only is scored
\* 0.5, an item of the semantic list only keeps s.
C8_FusedScoreValues ==
    Fused =>
        \A i \in DOMAIN fusion.combined :
           LET r == fusion.combined[i]
           IN /\ (InSemantic(r.item.id) /\ InText(r.item.id)) =>
                    10 * r.score = 7 * SemanticScore(r.item.id) + 3 * ScoreScale
              /\ (~InSemantic(r.item.id) /\ InText(r.item.id)) =>
                    2 * r.score = ScoreScale
              /\ (InSemantic(r.item.id) /\ ~InText(r.item.id)) =>
                    r.score = SemanticScore(r.item.id)

C8_Witness ==
    /\ Fused
    /\ \E i \in DOMAIN fusion.combined :
          /\ InSemantic(fusion.combined[i].item.id)
          /\ InText(fusion.combined[i].item.id)
          /\ SemanticScore(fusion.combined[i].item.id) = 900
          /\ fusion.combined[i].score = 930

\* C10: whatever the price bounds, an item of the truncated fused list
\* whose content has no price pattern is still in the output of
\* applyPostFilters.
C10_NoPriceNeverFiltered ==
    fusion.pc = "done" =>
        \A i \in DOMAIN fusion.combined :
           ~HasPricePattern(fusion.combined[i].item.content) =>
              \E j \in DOMAIN fusion.results : fusion.results[j] = fusion.combined[i]

C10_Witness ==
    /\ fusion.pc = "done"
    /\ ~fusion.filters.priceMin.isNil
    /\ Len(fusion.results) < Len(fusion.combined)
    /\ \E i \in DOMAIN fusion.combined :
          ~HasPricePattern(fusion.combined[i].item.content)

----------------------------------------------------------------------------
(* What Search hands to the two retrieval paths, checked under SpecSearch   *)

HasTagOverlap(item, tags) == \E i \in 1..Len(item.tags) : item.tags[i] \in tags

\* C11: in every Search the text handed to the embedding call is the
\* residual search terms of the parsed query, the relational search gets
\* the parsed filters (every row it selects overlaps an extracted tag set),
\* and both paths are asked for 2*limit candidates.
C11_PathsGetParsedQuery ==
    Searched =>
        LET parsed == ParseNaturalLanguageQuery(search.query)
        IN /\ search.embedded = parsed.searchTerms
           /\ search.sqlFilters = parsed
           /\ search.vectorK = 2 * search.limit
           /\ search.sqlLimit = 2 * search.limit
           /\ parsed.tags # {} =>
                 LET rows == SearchItemsRows(search.tableAtSearchItems, search.sqlFilters, search.sqlLimit)
                 IN \A i \in 1..Len(rows) : HasTagOverlap(rows[i], parsed.tags)

\* a search whose raw query carries a tag: phrase, over a store that holds
\* an item matching the residual terms but not the tag
C11_Witness ==
    /\ Searched
    /\ search.query # search.embedded
    /\ search.embedded = WordTea
    /\ search.sqlFilters.tags = {<<"d", "i", "n", "n", "e", "r">>}
    /\ \E it \in search.tableAtSearchItems : ILike(it.title, search.embedded) /\ ~HasTagOverlap(it, search.sqlFilters.tags)
    /\ SearchItemsRows(search.tableAtSearchItems, search.sqlFilters, search.sqlLimit) = <<>>

----------------------------------------------------------------------------
(* Properties of the provider adapter, checked under SpecProvider *)

\* the backend that is not the configured provider, when its key is set
FallbackBackend(service) ==
    IF Backend(service) = "gemini"
    THEN (IF service.openaiKey # "" THEN "openai" ELSE "")
    ELSE (IF service.geminiKey # "" THEN "gemini" ELSE "")

\* C13 (as claimed): a summarization or embedding call that the primary
\* backend fails is retried on the configured fallback backend, and returns
\* what the fallback answers; every call starts on the primary; tagging and
\* categorization only ever call the primary.
C13_FallbackOnPrimaryFailure ==
    last.op \in {"SummarizeContent", "GenerateEmbedding", "GenerateTags",
                 "CategorizeContent"} =>
        LET primary == Backend(last.service)
            fallback == FallbackBackend(last.service)
        IN /\ Head(last.calls) = primary
           /\ (/\ last.op \in {"SummarizeContent", "GenerateEmbedding"}
               /\ last.answers[primary] # "ok"
               /\ fallback # "")
                 => /\ last.calls = <<primary, fallback>>
                    /\ last.err = (last.answers[fallback] # "ok")
           /\ last.op \in {"GenerateTags", "CategorizeContent"}
                 => last.calls = <<primary>>

----------------------------------------------------------------------------
(* Score range of the fused results, checked under SpecFusion *)

InUnitRange(score) == 0 <= score /\ score <= ScoreScale

\* C14: every score of the semantic results (each max(0, 1-d) of a distance
\* d >= 0), of the fused list and of the list Search returns lies in [0,1].
C14_ScoresInUnitRange ==
    /\ fusion.pc # "off" =>
          \A i \in DOMAIN fusion.semanticResults :
              InUnitRange(fusion.semanticResults[i].score)
    /\ Fused =>
          /\ \A k \in DOMAIN fusion.resultMap : InUnitRange(fusion.resultMap[k].score)
          /\ \A i \in DOMAIN fusion.combined : InUnitRange(fusion.combined[i].score)
          /\ \A i \in DOMAIN fusion.results : InUnitRange(fusion.results[i].score)

\* a returned list with a boosted result at the top of the range and a
\* result whose distance was above 1
C14_Witness ==
    /\ fusion.pc = "done"
    /\ \E i \in DOMAIN fusion.results :
          /\ fusion.results[i].score = ScoreScale
          /\ InText(fusion.results[i].item.id)
          /\ InSemantic(fusion.results[i].item.id)
    /\ \E i \in DOMAIN fusion.results :
          /\ fusion.results[i].score = 0
          /\ InSemantic(fusion.results[i].item.id)

----------------------------------------------------------------------------
(* Degradation of a failed tag generation, checked under Spec *)

\* C15 (as claimed): when tag generation fails and the embedding is
\* generated, CreateItem succeeds: it returns no error and has persisted
\* the item, whose tag list is empty.
C15_TagFailureStillSucceeds ==
    (Created /\ run.tagErr /\ ~run.embErr) =>
        /\ run.err = ""
        /\ run.insert = "ok"
        /\ run.item # NoItem /\ run.item.tags = <<>>

\* C15 (amended): when tag generation fails and the embedding is
\* generated, the tag error is not returned: CreateItem returns an error
\* exactly when the insert fails; otherwise the persisted item has no tags,
\* and its summary, embedding reference and metadata are what the other
\* outcomes alone determine.
C15_TagFailureGivesEmptyTags ==
    (Created /\ run.tagErr /\ ~run.embErr) =>
        /\ run.err \in {"", "save"}
        /\ run.err = "save" <=> run.insert = "failed"
        /\ run.tasks.metadata = "done" /\ run.vectorWrite # "none"
        /\ run.vectorWrite = "ok" => UUIDString(run.id) \in chroma
        /\ run.err = "" =>
              /\ run.insert = "ok"
              /\ run.item.tags = <<>>
              /\ \E net \in NetOutcomes :
                    run.item =
                      NewItem(run.id, run.req0, PrepareContent(run.req0),
                              IF run.sumErr
                              THEN FallbackSummary(PrepareContent(run.req0))
                              ELSE AISummary,
                              <<>>, ResolvedMetadata[run.req0][net],
                              run.item.createdAt)

\* a call whose only failure is the tag generation and that persists an
\* item with a summary and an image
C15_Witness ==
    /\ Created /\ run.tagErr /\ ~run.embErr /\ ~run.sumErr
    /\ run.err = ""
    /\ run.item \in items
    /\ run.item.tags = <<>>
    /\ run.item.summary = AISummary
    /\ run.item.imageURL # ""
    /\ run.vectorWrite = "ok"

----------------------------------------------------------------------------
(* Properties of the goroutines of CreateItem, checked under SpecTasks *)

EnrichmentTasks == {"summary", "tags", "embedding", "metadata"}

InFlight == run.pc # "idle"

\* C16 (as claimed): once a call has started its four enrichment
\* operations are all launched, and when the call has decided its outcome
\* all four have completed, whether or not one of them failed.
C16_FourTasksLaunchedAndJoined ==
    InFlight =>
        /\ \A t \in EnrichmentTasks : run.tasks[t] # "none"
        /\ run.pc = "done" => \A t \in EnrichmentTasks : run.tasks[t] = "done"

\* C17 (as claimed): every write of a goroutine goes to its own result
\* channel, and the captured request is what the caller passed.
C17_TasksWriteOwnSlotOnly ==
    InFlight =>
        /\ \A w \in run.writes : w.target = ResultSlot[w.task]
        /\ run.req = run.req0

\* the items the readers were handed: by the last GetItem or GetAllItems
\* and by the search, in flight or returned
ObservedItems ==
    (IF last.op = "GetItem" THEN last.found
     ELSE IF last.op = "GetAllItems"
     THEN {last.result[i] : i \in DOMAIN last.result}
     ELSE {})
    \cup (IF search.pc \in {"text", "done"}
          THEN {search.semanticResults[i].item : i \in DOMAIN search.semanticResults}
          ELSE {})
    \cup (IF search.pc = "done"
          THEN {search.results[i].item : i \in DOMAIN search.results}
          ELSE {})

\* C18: a call makes at most one insert, and only once its four results
\* are in and AddEmbedding has been attempted; before the insert no row
\* with the new id exists and no reader has been handed one; a row or an
\* observed item with that id is the item the call built from its results.
C18_SingleInsertAfterEnrichment ==
    InFlight =>
        /\ run.inserts <= 1
        /\ (run.pc = "done" /\ run.err = "") => run.inserts = 1
        /\ run.inserts = 1 =>
              /\ \A t \in EnrichmentTasks : run.tasks[t] = "done"
              /\ run.vectorWrite # "none"
        /\ \A it \in items \cup ObservedItems :
              it.id = run.id =>
                /\ run.inserts = 1
                /\ it = run.item
                /\ it = NewItem(run.id, run.req, run.content, run.summary, run.tags,
                                [embedHTML |-> run.meta.embedHTML,
                                 imageURL |-> run.meta.imageURL,
                                 type |-> run.req.type], it.createdAt)

\* GetItem hands out the item of a finished call, enriched by a detected
\* book cover, whose vector write had failed
C18_Witness ==
    /\ run.pc = "done" /\ run.err = "" /\ run.inserts = 1
    /\ run.vectorWrite = "failed"
    /\ last.op = "GetItem" /\ last.found = {run.item}
    /\ run.item.type = "book" /\ run.item.imageURL = "cover-url"
    /\ run.item.summary = AISummary /\ run.item.tags = AITags

\* C19: a step never changes a stored row: every row of the table is
\* either still there with the same field values or gone with its id.
C19_StoredItemsImmutable ==
    [][\A it \in items : it \in items' \/ ~\E jt \in items' : jt.id = it.id]_vars

\* the row a finished call inserted is still in the table, with the field
\* values it was inserted with, after a search has run
C19_Witness ==
    /\ run.pc = "done" /\ run.err = "" /\ run.inserts = 1
    /\ search.pc = "done" /\ search.tableAtSearchItems = {run.item}
    /\ items = {run.item}

----------------------------------------------------------------------------
(* Order and length of the fused list, checked under SpecFusion *)

KeptIDs == {fusion.combined[i].item.id : i \in DOMAIN fusion.combined}

\* C20: the list combineResults returns is in non-increasing score order,
\* has at most limit entries, and no entry left out by the truncation has a
\* higher score than an entry that was kept.
C20_SortedAndTruncated ==
    Fused =>
        /\ \A i, j \in DOMAIN fusion.combined :
              i < j => fusion.combined[i].score >= fusion.combined[j].score
        /\ Len(fusion.combined) <= fusion.limit
        /\ KeptIDs \subseteq DOMAIN fusion.resultMap
        /\ \A k \in DOMAIN fusion.resultMap \ KeptIDs :
              \A i \in DOMAIN fusion.combined :
                  fusion.resultMap[k].score <= fusion.combined[i].score

\* three fused entries with three different scores, cut down to two
C20_Witness ==
    /\ Fused
    /\ fusion.limit = 2
    /\ Cardinality(DOMAIN fusion.resultMap) = 3
    /\ Len(fusion.combined) = 2
    /\ fusion.combined[1].score > fusion.combined[2].score
    /\ \E k \in DOMAIN fusion.resultMap \ KeptIDs :
          fusion.resultMap[k].score < fusion.combined[2].score

----------------------------------------------------------------------------
(* Identity of the fused results and the price post-filter, checked under  *)
(* SpecFusion                                                              *)

IDsOf(results) == {results[i].item.id : i \in DOMAIN results}

NoRepeatedID(results) ==
    \A i, j \in DOMAIN results : i # j => results[i].item.id # results[j].item.id

\* C21: neither the fused list nor the list handed back after the price
\* filter holds two entries with one item id, and every id in them is an id
\* of the semantic list or of the text list.
C21_NoDuplicateIDs ==
    Fused =>
        /\ NoRepeatedID(fusion.combined) /\ NoRepeatedID(fusion.results)
        /\ IDsOf(fusion.combined) \cup IDsOf(fusion.results)
              \subseteq IDsOf(fusion.semanticResults)
                          \cup {fusion.textResults[i].id : i \in DOMAIN fusion.textResults}

\* an id the vector store reported twice and the text search reported as
\* well is in the returned list once
C21_Witness ==
    /\ fusion.pc = "done"
    /\ \E i, j \in DOMAIN fusion.semanticResults :
          /\ i # j
          /\ fusion.semanticResults[i].item.id = fusion.semanticResults[j].item.id
          /\ InText(fusion.semanticResults[i].item.id)
          /\ fusion.semanticResults[i].item.id \in IDsOf(fusion.results)
    /\ Len(fusion.results) = 2

PriceInBounds(price, filters) ==
    /\ filters.priceMin.isNil \/ ~PriceBelow(price, filters.priceMin.v)
    /\ filters.priceMax.isNil \/ ~PriceAbove(price, filters.priceMax.v)

\* C22 (as claimed): the output is the truncated fused list itself when no
\* price bound is set, and otherwise its sub-list, in the same order, of
\* exactly the entries whose content has no price pattern or whose
\* extracted price lies within the bounds that are set (bounds included).
C22_PostFilterAfterTruncation ==
    fusion.pc = "done" =>
        /\ NoPriceFilter(fusion.filters) => fusion.results = fusion.combined
        /\ fusion.results =
              SelectSeq(fusion.combined,
                        LAMBDA r : \/ ~HasPricePattern(r.item.content)
                                   \/ PriceInBounds(extractPriceFromContent(r.item.content),
                                                    fusion.filters))

\* what applyPostFilters does keep: the entries whose extracted price is 0
\* (no pattern, or a pattern that captures 0) and those within the bounds
PostFilterSelection ==
    fusion.pc = "done" =>
        fusion.results =
            SelectSeq(fusion.combined,
                      LAMBDA r : \/ extractPriceFromContent(r.item.content) = NoPrice
                                 \/ PriceInBounds(extractPriceFromContent(r.item.content),
                                                  fusion.filters))

----------------------------------------------------------------------------
(* Metadata resolution, checked under SpecMetadata                         *)

Resolved == last.op = "resolve"

\* the image and thumbnail values the caller put into the request
CallerImages(req) == {req.imageURL, req.metadata.image, req.metadata.thumbnail} \ {""}

\* C23 (as claimed): whenever the request carries an image URL or a
\* metadata image or thumbnail, whatever its type, the resolved image URL
\* is one of those values and the goroutine calls none of GetURLMetadata,
\* DetectBookAndGetCover and DetectRecipeAndGetImage.
C23_CallerImageWins ==
    (Resolved /\ CallerImages(last.req) # {}) =>
        /\ last.meta.imageURL \in CallerImages(last.req)
        /\ last.meta.calls = <<>>

\* C24 (as claimed): whenever the request carries no image or thumbnail
\* and its source URL is a video-platform URL, whatever its type, the
\* embed markup and the thumbnail are the ones synthesized from the video
\* id and no network request is sent.
C24_VideoURLSynthesized ==
    (Resolved /\ CallerImages(last.req) = {} /\ last.req.sourceURL \in YouTubeURLs) =>
        /\ last.meta.embedHTML = "youtube-iframe"
        /\ last.meta.imageURL = "youtube-thumbnail"
        /\ last.meta.network = {}

\* C25: the book step is called before the recipe step; the recipe step
\* is called only when the book step resolved no cover; when a cover is
\* resolved the type left is "book" for a request without type and is
\* never "recipe"; and a type set by the caller is left as it is.
C25_BookBeforeRecipe ==
    Resolved =>
        LET m == last.meta IN
        /\ \A i, j \in DOMAIN m.calls :
              (m.calls[i] = "book" /\ m.calls[j] = "recipe") => i < j
        /\ (\E j \in DOMAIN m.calls : m.calls[j] = "recipe") =>
              /\ m.bookCover = ""
              /\ \E i \in DOMAIN m.calls : m.calls[i] = "book"
        /\ m.bookCover # "" =>
              /\ m.type # "recipe"
              /\ m.imageURL = m.bookCover
              /\ last.req.type = "" => m.type = "book"
        /\ last.req.type # "" => m.type = last.req.type
        /\ m.type \in {last.req.type, "book", "recipe"}

\* a request without type and image whose content names a book and a
\* recipe gets the cover, is typed "book", and the recipe step is not called
C25_Witness ==
    /\ Resolved
    /\ last.req.type = "" /\ CallerImages(last.req) = {}
    /\ MentionsAny(BookKeywords, last.req.title, last.req.content)
    /\ MentionsAny(RecipeKeywords, last.req.title, last.req.content)
    /\ last.meta.bookCover = "cover-url"
    /\ last.meta.type = "book"
    /\ last.meta.calls = <<"book">>

----------------------------------------------------------------------------
(* The relational text search, checked under SpecRepository                *)

Queried == last.op = "SearchItems"

TypeOnly(filters) == filters.type # "" /\ filters.searchTerms = <<>>

\* C26: the rows the query of SearchItems matches are, when the filters
\* carry a type and no search terms, the rows of that type among those the
\* same filters match without the type, and in every other case exactly
\* the rows matched without the type; every matched row lies within the
\* date bounds, shares a tag with the filters and matches the author (as
\* the ILIKE pattern of the query) in its content or title, for each of
\* these that is set.
C26_TypeFilterOnlyWithoutTerms ==
    Queried =>
        LET f == last.filters IN
        /\ TypeOnly(f) =>
              last.rows = Truncate(SelectSeq(last.typeless, LAMBDA r : r.type = f.type),
                                   last.limit)
        /\ ~TypeOnly(f) => last.rows = Truncate(last.typeless, last.limit)
        /\ \A i \in DOMAIN last.rows :
              LET r == last.rows[i] IN
              /\ ~f.dateFrom.isNil => r.createdAt >= f.dateFrom.v
              /\ ~f.dateTo.isNil => r.createdAt <= f.dateTo.v
              /\ f.tags # {} => \E k \in DOMAIN r.tags : r.tags[k] \in f.tags
              /\ f.author # <<>> => ILike(r.content, f.author) \/ ILike(r.title, f.author)

\* filters with a type, search terms, a tag and an author match a row of
\* another type, while a row of that other type is in the table that the
\* author filter leaves out
C26_Witness ==
    /\ Queried
    /\ last.filters.type = "amazon" /\ last.filters.searchTerms # <<>>
    /\ last.filters.author # <<>> /\ last.filters.tags # {}
    /\ \E i \in DOMAIN last.rows : last.rows[i].type = "note"
    /\ \E r \in items : r.type = "amazon" /\ \A i \in DOMAIN last.rows : last.rows[i] # r

\* C29 (as claimed): whenever the query of SearchItems ran without error
\* and matched at least one row, SearchItems returns the matched rows and
\* no error.
C29_MatchedRowsReturned ==
    (Queried /\ ~last.queryErr /\ last.rows # <<>>) =>
        /\ ~last.result.err
        /\ last.result.items = last.rows

----------------------------------------------------------------------------
(* Expiry of the caller's scope, checked under SpecExpiry                  *)

\* the scope expired before AddEmbedding was called
ExpiredBeforeVectorWrite == run.expired /\ run.expiredAt \in {"wait3", "meta"}

\* C27 (as claimed): when the scope expired during the call, CreateItem
\* returns an error, no row was inserted after the expiry, and no vector
\* entry was written after the expiry.
C27_ExpiryAbandonsCall ==
    (run.pc \in {"insert", "done"} /\ run.expired) =>
        /\ run.pc = "done" => run.err # "" /\ run.item = NoItem
        /\ \A it \in items : it.id # run.id
        /\ ExpiredBeforeVectorWrite => run.vectorWrite # "ok"

\* what does hold: after an expiry the call returns an error and inserts
\* no row
ExpiryFailsTheCall ==
    (run.pc = "done" /\ run.expired) =>
        /\ run.err # "" /\ run.item = NoItem
        /\ \A it \in items : it.id # run.id

----------------------------------------------------------------------------
(* Results and the relational store, checked under SpecSearch              *)

\* C28: every item of the semantic results is a row the relational store
\* held when GetByIDs read it, and every item Search returns is a row the
\* store held when GetByIDs or SearchItems read it, whatever ids the vector
\* store answered.
C28_ResultsAreStoredRows ==
    Searched =>
        /\ \A i \in DOMAIN search.semanticResults :
              search.semanticResults[i].item \in search.tableAtGetByIDs
        /\ \A i \in DOMAIN search.results :
              search.results[i].item
                 \in search.tableAtGetByIDs \cup search.tableAtSearchItems

\* the vector store answered an id that has no row (the row was deleted or
\* its insert failed after the vector write); the search succeeded and
\* built no semantic result for it
C28_Witness ==
    /\ Searched /\ ~search.err /\ ~search.semErr
    /\ search.vectorIDs # <<>>
    /\ \A i \in DOMAIN search.vectorIDs :
          /\ search.vectorIDs[i] \in chroma
          /\ \A it \in search.tableAtGetByIDs : it.id # uuidParse(search.vectorIDs[i])
    /\ search.semanticResults = <<>>

----------------------------------------------------------------------------
(* The embedding reference, checked under SpecTasks                        *)

\* C30: a call in flight has its id from the start, before any of its
\* goroutines has delivered a result; the embedding reference of every
\* stored item, and of the item a call returns, is the string form of its
\* id; a vector entry is written under the string form of the id of a call
\* only; and the item is stored with that reference whether or not the
\* vector write succeeded.
C30_EmbeddingReferenceIsItemID ==
    /\ run.pc # "idle" => run.id \in 1..nextID
    /\ \A it \in items : it.embeddingID = UUIDString(it.id)
    /\ chroma \subseteq {UUIDString(id) : id \in 1..nextID}
    /\ (run.pc # "idle" /\ run.vectorWrite = "ok") => UUIDString(run.id) \in chroma
    /\ (run.pc = "done" /\ run.err = "") =>
          /\ run.item.id = run.id
          /\ run.item.embeddingID = UUIDString(run.id)

\* a stored item carries its reference although the vector write failed
\* and no vector entry exists under it
C30_Witness ==
    /\ run.pc = "done" /\ run.err = ""
    /\ run.vectorWrite = "failed"
    /\ run.item \in items
    /\ run.item.embeddingID = UUIDString(run.id)
    /\ run.item.embeddingID \notin chroma

====
